---- MODULE Spec2Model ----
(***************************************************************************)
(* The PNG reader scripts of PNGReader/src (main.py, test.py, test2.py):   *)
(* the chunk loop of the three read_png functions, the payload aggregation *)
(* and the scanline defilter of test2.py.                                  *)
(*                                                                         *)
(* Python values are modelled as follows.  bytes are sequences of          *)
(* 0..255, indexed from 0 through At and sliced through Slice.  None is    *)
(* NoneInt for the integer fields of the header and NoneBytes for          *)
(* previous_scanline.  An exception leaving a function is an outcome.      *)
(***************************************************************************)
EXTENDS Integers, Sequences, FiniteSets, TLC

\* ------------------------------------------------------------------ bounds

\* Largest width and height of the images the defilter is run on.
MaxWidth == 2
MaxHeight == 2
\* Largest number of complete chunks in a file handed to read_png.
MaxChunks == 3

\* --------------------------------------------------------- Python helpers

NoneInt == -1
NoneBytes == <<-1>>

\* data[i] of Python, i >= 0 and in range.
At(data, i) == data[i + 1]

\* data[lo:hi] of Python for 0 <= lo: the slice is clipped to the data.
Slice(data, lo, hi) ==
  LET top == IF hi < Len(data) THEN hi ELSE Len(data)
  IN IF lo >= top THEN <<>> ELSE SubSeq(data, lo + 1, top)

\* abs() of Python.
Abs(x) == IF x < 0 THEN -x ELSE x

\* Truth value of `previous_scanline_data` in an if: not None and not empty.
Truthy(prev) == prev # NoneBytes /\ Len(prev) > 0

\* ------------------------------------------------ test2.py: the defilter

\* bytes_per_pixel = 3 of apply_filters_to_data and of the filter functions.
bytes_per_pixel == 3

RECURSIVE SubLoop(_, _, _)
SubLoop(scanline_data, filtered_scanline, i) ==
  IF i >= Len(scanline_data) THEN filtered_scanline
  ELSE SubLoop(scanline_data,
               [filtered_scanline EXCEPT
                  ![i + 1] = (At(scanline_data, i)
                              + At(filtered_scanline, i - bytes_per_pixel)) % 256],
               i + 1)

apply_sub_filter(scanline_data, width) ==
  SubLoop(scanline_data, scanline_data, bytes_per_pixel)

\* previous_scanline_data[i] raises IndexError when the previous scanline is
\* shorter than this one: in apply_up_filter whenever it is not None, in
\* apply_average_filter and apply_paeth_filter whenever it is truthy.
UpRaises(scanline_data, previous_scanline_data) ==
  /\ previous_scanline_data # NoneBytes
  /\ Len(previous_scanline_data) < Len(scanline_data)

AboveRaises(scanline_data, previous_scanline_data) ==
  /\ Truthy(previous_scanline_data)
  /\ Len(previous_scanline_data) < Len(scanline_data)

apply_up_filter(scanline_data, width, previous_scanline_data) ==
  IF previous_scanline_data = NoneBytes THEN scanline_data
  ELSE [i \in 1..Len(scanline_data) |->
          (scanline_data[i] + previous_scanline_data[i]) % 256]

RECURSIVE AverageLoop(_, _, _, _, _)
AverageLoop(scanline_data, previous_scanline_data, bpp, filtered_scanline, i) ==
  IF i >= Len(scanline_data) THEN filtered_scanline
  ELSE LET a == IF i >= bpp THEN At(filtered_scanline, i - bpp) ELSE 0
           b == IF Truthy(previous_scanline_data)
                THEN At(previous_scanline_data, i) ELSE 0
           avg == (a + b) \div 2
       IN AverageLoop(scanline_data, previous_scanline_data, bpp,
                      [filtered_scanline EXCEPT
                         ![i + 1] = (At(scanline_data, i) + avg) % 256],
                      i + 1)

\* apply_average_filter taking the byte before for the pixel to the left.
apply_average_filter_byte_left(scanline_data, width, previous_scanline_data, bpp) ==
  AverageLoop(scanline_data, previous_scanline_data, 1, scanline_data, 0)

apply_average_filter(scanline_data, width, previous_scanline_data, bpp) ==
  AverageLoop(scanline_data, previous_scanline_data, bpp, scanline_data, 0)

\* paeth_predictor with < where the code has <=.
paeth_predictor_strict(a, b, c) ==
  LET p == a + b - c
      pa == Abs(p - a)
      pb == Abs(p - b)
      pc == Abs(p - c)
  IN IF pa < pb /\ pa < pc THEN a
     ELSE IF pb < pc THEN b
     ELSE c

paeth_predictor(a, b, c) ==
  LET p == a + b - c
      pa == Abs(p - a)
      pb == Abs(p - b)
      pc == Abs(p - c)
  IN IF pa <= pb /\ pa <= pc THEN a
     ELSE IF pb <= pc THEN b
     ELSE c

RECURSIVE PaethLoop(_, _, _, _, _)
PaethLoop(scanline_data, previous_scanline_data, bpp, filtered_scanline, i) ==
  IF i >= Len(scanline_data) THEN filtered_scanline
  ELSE LET a == IF i >= bpp THEN At(filtered_scanline, i - bpp) ELSE 0
           b == IF Truthy(previous_scanline_data)
                THEN At(previous_scanline_data, i) ELSE 0
           c == IF Truthy(previous_scanline_data) /\ i >= bpp
                THEN At(previous_scanline_data, i - bpp) ELSE 0
           paeth == paeth_predictor(a, b, c)
       IN PaethLoop(scanline_data, previous_scanline_data, bpp,
                    [filtered_scanline EXCEPT
                       ![i + 1] = (At(scanline_data, i) + paeth) % 256],
                    i + 1)

apply_paeth_filter(scanline_data, width, previous_scanline_data, bpp) ==
  PaethLoop(scanline_data, previous_scanline_data, bpp, scanline_data, 0)

\* The locals of apply_filters_to_data before its loop.
FilterStart ==
  [row |-> 0, unfiltered_data |-> <<>>, previous_scanline |-> NoneBytes,
   status |-> "loop"]

\* One iteration of `for row in range(height)`, or the return after the last.
\* status: "loop" while iterating, "returned" after the return statement,
\* "IndexError" when a subscript is out of range.
FilterRowStep(width, height, pixel_data, st) ==
  LET scanline_length == width * 3 + 1
      row == st.row
  IN IF row >= height THEN [st EXCEPT !.status = "returned"]
     ELSE IF row * scanline_length >= Len(pixel_data)
     THEN [st EXCEPT !.status = "IndexError"]
     ELSE
       LET filter_type == At(pixel_data, row * scanline_length)
           scanline == Slice(pixel_data, row * scanline_length + 1,
                             (row + 1) * scanline_length)
           prev == st.previous_scanline
           keep(out) == [st EXCEPT !.row = row + 1,
                                   !.unfiltered_data = @ \o out,
                                   !.previous_scanline = scanline]
       IN CASE filter_type = 0 -> keep(scanline)
            [] filter_type = 1 -> keep(apply_sub_filter(scanline, width))
            [] filter_type = 2 ->
                 IF UpRaises(scanline, prev)
                 THEN [st EXCEPT !.status = "IndexError"]
                 ELSE keep(apply_up_filter(scanline, width, prev))
            [] filter_type = 3 ->
                 IF AboveRaises(scanline, prev)
                 THEN [st EXCEPT !.status = "IndexError"]
                 ELSE keep(apply_average_filter(scanline, width, prev,
                                                bytes_per_pixel))
            [] filter_type = 4 ->
                 IF AboveRaises(scanline, prev)
                 THEN [st EXCEPT !.status = "IndexError"]
                 ELSE keep(apply_paeth_filter(scanline, width, prev,
                                              bytes_per_pixel))
            [] OTHER -> [st EXCEPT !.row = row + 1]

RECURSIVE FilterRun(_, _, _, _)
FilterRun(width, height, pixel_data, st) ==
  IF st.status # "loop" THEN st
  ELSE FilterRun(width, height, pixel_data,
                 FilterRowStep(width, height, pixel_data, st))

\* The whole call: the final locals, status "returned" or "IndexError".
apply_filters_to_data(width, height, pixel_data) ==
  FilterRun(width, height, pixel_data, FilterStart)

\* ------------------------------------------------------------- the state

VARIABLES
  \* read_png: which script's function runs, the opened file and its position
  reader, file, f_pos, step,
  \* read_png: its locals
  signature, width, height, bit_depth, color_type, pixel_data, palette,
  chunks, chunk_i, decompressed_data,
  \* read_png: how the call ended and the pixel data it returned
  outcome, returned_data,
  \* apply_filters_to_data called on its own: arguments and locals
  f_width, f_height, f_pixel_data, fst,
  \* the unfiltered image and the filter types the argument was made from
  t_image, t_filters,
  \* paeth_predictor or interpret_rgb_8bit called on its own: the arguments
  \* and what the call answered
  call, ret,
  \* parse_mp4: the opened file, its position, the calls below parse_mp4
  \* (innermost first) and where the walk is
  m_file, m_pos, m_stack, m_status

rvars == <<reader, file, f_pos, step, signature, width, height, bit_depth,
           color_type, pixel_data, palette, chunks, chunk_i,
           decompressed_data, outcome, returned_data>>
fvars == <<f_width, f_height, f_pixel_data, fst, t_image, t_filters>>
cvars == <<call, ret>>
mvars == <<m_file, m_pos, m_stack, m_status>>
ovars == <<cvars, mvars>>
vars == <<rvars, fvars, ovars>>

\* ------------------------------------- inputs of the defilter on its own

\* The pixels the test images are made of.
PixelVals == {<<0, 0, 0>>, <<200, 100, 255>>}

\* The filter-type bytes of the test streams: the five of PNG and one more.
FilterTypeBytes == 0..5

\* A row of w pixels as its w * 3 bytes.
RowBytes(w, px) == [i \in 1..(w * 3) |-> px[((i - 1) \div 3) + 1][((i - 1) % 3) + 1]]

Rows(w) == {RowBytes(w, px) : px \in [1..w -> PixelVals]}

\* The Paeth predictor of the PNG standard.
PaethStd(a, b, c) ==
  LET p == a + b - c
      da == Abs(p - a)
      db == Abs(p - b)
      dc == Abs(p - c)
  IN IF da <= db /\ da <= dc THEN a
     ELSE IF db <= dc THEN b
     ELSE c

\* The standard PNG filter of one row: cur and above are unfiltered rows
\* (above is NoneBytes for the first row).  A type outside 0..4 has no
\* filter: the row is written as it is behind that type byte.
PngFilterRow(ft, cur, above) ==
  [i \in 1..Len(cur) |->
     LET a == IF i > 3 THEN cur[i - 3] ELSE 0
         b == IF above = NoneBytes THEN 0 ELSE above[i]
         c == IF above # NoneBytes /\ i > 3 THEN above[i - 3] ELSE 0
         pred == CASE ft = 1 -> a
                   [] ft = 2 -> b
                   [] ft = 3 -> (a + b) \div 2
                   [] ft = 4 -> PaethStd(a, b, c)
                   [] OTHER -> 0
     IN (cur[i] + 256 - pred) % 256]

\* The filtered stream of an image given as its rows.
RECURSIVE PngFilter(_, _, _)
PngFilter(rows, fts, r) ==
  IF r > Len(rows) THEN <<>>
  ELSE <<fts[r]>>
       \o PngFilterRow(fts[r], rows[r], IF r = 1 THEN NoneBytes ELSE rows[r - 1])
       \o PngFilter(rows, fts, r + 1)

RECURSIVE Flatten(_)
Flatten(rows) == IF rows = <<>> THEN <<>> ELSE Head(rows) \o Flatten(Tail(rows))

\* The lengths a stream of h rows of w pixels is cut to: whole, one byte
\* short, the last row's type byte without its data, the last row missing.
KeepLens(w, h) ==
  LET full == h * (w * 3 + 1)
  IN {full, full - 1, full - w * 3, full - (w * 3 + 1)}

\* ----------------------------------------- apply_filters_to_data, by row

CallIdle == call = [fn |-> "none"] /\ ret = [status |-> "none"]

Mp4Idle == m_file = <<>> /\ m_pos = 0 /\ m_stack = <<>> /\ m_status = "idle"

ReaderIdle ==
  /\ reader = "none" /\ file = <<>> /\ f_pos = 0 /\ step = "idle"
  /\ signature = <<>> /\ width = NoneInt /\ height = NoneInt
  /\ bit_depth = NoneInt /\ color_type = NoneInt
  /\ pixel_data = <<>> /\ palette = <<>> /\ chunks = <<>> /\ chunk_i = 0
  /\ decompressed_data = NoneBytes /\ outcome = "running"
  /\ returned_data = NoneBytes

InitFilter ==
  /\ ReaderIdle
  /\ CallIdle
  /\ Mp4Idle
  /\ \E w \in 1..MaxWidth, h \in 1..MaxHeight :
       \E rows \in [1..h -> Rows(w)], fts \in [1..h -> FilterTypeBytes],
          keep \in KeepLens(w, h) :
         /\ f_width = w
         /\ f_height = h
         /\ t_image = Flatten(rows)
         /\ t_filters = fts
         /\ f_pixel_data = Slice(PngFilter(rows, fts, 1), 0, keep)
  /\ fst = FilterStart

\* One iteration of the loop over the rows.
DefilterRow ==
  /\ fst.status = "loop"
  /\ fst.row < f_height
  /\ fst' = FilterRowStep(f_width, f_height, f_pixel_data, fst)
  /\ UNCHANGED <<rvars, ovars, f_width, f_height, f_pixel_data, t_image, t_filters>>

\* return bytes(unfiltered_data)
DefilterReturn ==
  /\ fst.status = "loop"
  /\ fst.row >= f_height
  /\ fst' = FilterRowStep(f_width, f_height, f_pixel_data, fst)
  /\ UNCHANGED <<rvars, ovars, f_width, f_height, f_pixel_data, t_image, t_filters>>

NextFilter == DefilterRow \/ DefilterReturn

SpecFilter == InitFilter /\ [][NextFilter]_vars

\* ------------------------------------------------------ bytes of a file

\* b'\x89PNG\r\n\x1a\n'
PNG_SIGNATURE == <<137, 80, 78, 71, 13, 10, 26, 10>>

\* The chunk types the readers compare with, as their ASCII bytes.
T_IHDR == <<73, 72, 68, 82>>
T_IDAT == <<73, 68, 65, 84>>
T_IEND == <<73, 69, 78, 68>>
T_PLTE == <<80, 76, 84, 69>>

\* struct.unpack('>I', b)[0] for four bytes b.
unpack_I(b) == ((b[1] * 256 + b[2]) * 256 + b[3]) * 256 + b[4]

\* struct.pack('>I', n)
pack_I(n) ==
  <<(n \div 16777216) % 256, (n \div 65536) % 256, (n \div 256) % 256, n % 256>>

\* bytes.decode('ascii') raises UnicodeDecodeError on a byte above 127.
IsAscii(b) == \A i \in 1..Len(b) : b[i] < 128

\* ---------------------------------------------------- read_png, its parts

\* signature != b'\x89PNG\r\n\x1a\n' is false.
SignaturePrefixMatches(sig) == Slice(sig, 0, 4) = Slice(PNG_SIGNATURE, 0, 4)

SignatureMatches(sig) == sig = PNG_SIGNATURE

\* pixel_data += chunk_data (test.py, test2.py), image_data += chunk_data
\* (main.py)
AggregatePrepended(buffer, chunk_data) == chunk_data \o buffer

Aggregate(buffer, chunk_data) == buffer \o chunk_data

\* The reads of one iteration of the chunk loop of test.py and test2.py, with
\* the length check behind each.  status "chunk": a whole chunk was read.
ReadChunkChecked(f, pos) ==
  LET length_bytes == Slice(f, pos, pos + 4)
      p1 == pos + Len(length_bytes)
  IN IF Len(length_bytes) # 4
     THEN [status |-> "TruncatedStream", pos |-> p1, type |-> <<>>, data |-> <<>>]
     ELSE
     LET length == unpack_I(length_bytes)
         chunk_type == Slice(f, p1, p1 + 4)
         p2 == p1 + Len(chunk_type)
     IN IF Len(chunk_type) # 4
        THEN [status |-> "TruncatedStream", pos |-> p2, type |-> <<>>, data |-> <<>>]
        ELSE IF ~IsAscii(chunk_type)
        THEN [status |-> "Unexpected", pos |-> p2, type |-> <<>>, data |-> <<>>]
        ELSE
        LET chunk_data == Slice(f, p2, p2 + length)
            p3 == p2 + Len(chunk_data)
        IN IF Len(chunk_data) # length
           THEN [status |-> "TruncatedStream", pos |-> p3, type |-> <<>>,
                 data |-> <<>>]
           ELSE
           LET crc_bytes == Slice(f, p3, p3 + 4)
               p4 == p3 + Len(crc_bytes)
           IN IF Len(crc_bytes) # 4
              THEN [status |-> "TruncatedStream", pos |-> p4, type |-> <<>>,
                    data |-> <<>>]
              ELSE [status |-> "chunk", pos |-> p4, type |-> chunk_type,
                    data |-> chunk_data]

\* The reads of one iteration of the chunk loop of main.py: it checks only for
\* an empty length field; struct.unpack raises struct.error on a short
\* length or CRC field.  status "eof": the loop breaks.
ReadChunkUnchecked(f, pos) ==
  LET length_bytes == Slice(f, pos, pos + 4)
      p1 == pos + Len(length_bytes)
  IN IF Len(length_bytes) = 0
     THEN [status |-> "eof", pos |-> p1, type |-> <<>>, data |-> <<>>]
     ELSE IF Len(length_bytes) # 4
     THEN [status |-> "Unexpected", pos |-> p1, type |-> <<>>, data |-> <<>>]
     ELSE
     LET length == unpack_I(length_bytes)
         chunk_type == Slice(f, p1, p1 + 4)
         p2 == p1 + Len(chunk_type)
     IN IF ~IsAscii(chunk_type)
        THEN [status |-> "Unexpected", pos |-> p2, type |-> <<>>, data |-> <<>>]
        ELSE
        LET chunk_data == Slice(f, p2, p2 + length)
            p3 == p2 + Len(chunk_data)
            crc_bytes == Slice(f, p3, p3 + 4)
            p4 == p3 + Len(crc_bytes)
        IN IF Len(crc_bytes) # 4
           THEN [status |-> "Unexpected", pos |-> p4, type |-> <<>>,
                 data |-> <<>>]
           ELSE [status |-> "chunk", pos |-> p4, type |-> chunk_type,
                 data |-> chunk_data]

\* IsDataChunk taking every chunk type the readers do not name for image
\* data.
IsDataChunkLoose(chunk_type) == chunk_type \notin {T_IHDR, T_IEND, T_PLTE}

\* elif chunk_type == 'IDAT'
IsDataChunk(chunk_type) == chunk_type = T_IDAT

\* The triples appended to palette for one PLTE chunk (test.py).
RECURSIVE PaletteTriples(_, _)
PaletteTriples(chunk_data, i) ==
  IF i >= Len(chunk_data) THEN <<>>
  ELSE <<<<At(chunk_data, i), At(chunk_data, i + 1), At(chunk_data, i + 2)>>>>
       \o PaletteTriples(chunk_data, i + 3)

\* zlib.decompress is a library call.  What it answers is chosen among the
\* streams below, or zlib.error; an empty buffer is always zlib.error.
ZlibStreams ==
  { <<0, 10, 20, 30>>,
    <<5, 10, 20, 30>>,
    <<0, 10>>,
    <<>>,
    <<1, 10, 20, 30, 2, 1, 1, 1>> }

ZlibOutcomes(buffer) ==
  {[ok |-> FALSE, data |-> <<>>]}
  \cup (IF buffer = <<>> THEN {}
        ELSE {[ok |-> TRUE, data |-> z] : z \in ZlibStreams})

\* ------------------------------------------------ the files read_png gets

\* A chunk as its bytes: length, type, payload and a CRC field, which no
\* reader verifies.
EncodeChunk(c) == pack_I(Len(c.data)) \o c.type \o c.data \o <<0, 0, 0, 0>>

RECURSIVE EncodeChunks(_)
EncodeChunks(cs) ==
  IF cs = <<>> THEN <<>> ELSE EncodeChunk(Head(cs)) \o EncodeChunks(Tail(cs))

\* struct.pack('>IIBBBBB', width, height, bit_depth, color_type, 0, 0, 0)
IhdrData(w, h, bd, ct) == pack_I(w) \o pack_I(h) \o <<bd, ct, 0, 0, 0>>

\* tEXt, a type none of the readers names.
T_tEXt == <<116, 69, 88, 116>>
\* A type field that is not ASCII.
T_NotAscii == <<200, 68, 65, 84>>

\* The whole chunks the files are made of.
ChunkKinds ==
  { [type |-> T_IHDR, data |-> IhdrData(1, 1, 8, 2)],
    [type |-> T_IHDR, data |-> IhdrData(1, 2, 16, 2)],
    [type |-> T_IDAT, data |-> <<>>],
    [type |-> T_IDAT, data |-> <<7>>],
    [type |-> T_IDAT, data |-> <<8, 9>>],
    [type |-> T_IEND, data |-> <<>>],
    [type |-> T_tEXt, data |-> <<5>>],
    [type |-> T_NotAscii, data |-> <<6>>],
    [type |-> T_PLTE, data |-> <<1, 2, 3>>] }

\* What follows the last whole chunk: nothing, half a length field, half a
\* type field, a payload shorter than the declared length (with an ASCII and
\* with a non-ASCII type), half a CRC field.
FileTails ==
  { <<>>,
    <<0, 0>>,
    pack_I(5) \o <<73, 68>>,
    pack_I(5) \o T_IDAT \o <<7, 7>>,
    pack_I(5) \o T_NotAscii \o <<7, 7>>,
    pack_I(1) \o T_IDAT \o <<7>> \o <<0, 0>> }

\* Eight bytes that differ from the signature in the last one only.
OtherSignature == <<137, 80, 78, 71, 13, 10, 26, 11>>

ChunkLists(n) == UNION {[1..k -> ChunkKinds] : k \in 0..n}

Files ==
  {PNG_SIGNATURE \o EncodeChunks(cs) \o t : cs \in ChunkLists(MaxChunks), t \in FileTails}
  \cup {OtherSignature \o EncodeChunks(cs) : cs \in ChunkLists(1)}
  \cup {Slice(PNG_SIGNATURE, 0, 3)}

\* ------------------------------------------------------- read_png, by step

FilterIdle ==
  /\ f_width = 0 /\ f_height = 0 /\ f_pixel_data = <<>>
  /\ fst = [FilterStart EXCEPT !.status = "idle"]
  /\ t_image = <<>> /\ t_filters = <<>>

Init ==
  /\ reader \in {"main", "test", "test2"}
  /\ file \in Files
  /\ f_pos = 0
  /\ step = "signature"
  /\ signature = <<>>
  /\ width = NoneInt /\ height = NoneInt
  /\ bit_depth = NoneInt /\ color_type = NoneInt
  /\ pixel_data = <<>> /\ palette = <<>> /\ chunks = <<>> /\ chunk_i = 0
  /\ decompressed_data = NoneBytes
  /\ outcome = "running"
  /\ returned_data = NoneBytes
  /\ FilterIdle
  /\ CallIdle
  /\ Mp4Idle

\* The function ends without a result: `return None` behind a message
\* (test.py, test2.py) or an exception (main.py).  kind names the message:
\*   "InvalidSignature"    Invalid PNG signature
\*   "TruncatedStream"     Unexpected end of file ... / Expected n bytes ...
\*   "DecompressionError"  Error during zlib decompression
\*   "Unexpected"          An unexpected error occurred (except Exception),
\*                         or an exception main.py does not raise itself
Fail(kind) ==
  /\ step' = "done"
  /\ outcome' = kind

\* signature = f.read(8) and its comparison
CheckSignature ==
  /\ step = "signature"
  /\ signature' = Slice(file, f_pos, f_pos + 8)
  /\ f_pos' = f_pos + Len(signature')
  /\ IF SignatureMatches(signature')
     THEN step' = "chunks" /\ UNCHANGED outcome
     ELSE Fail("InvalidSignature")
  /\ UNCHANGED <<reader, file, width, height, bit_depth, color_type,
                 pixel_data, palette, chunks, chunk_i, decompressed_data,
                 returned_data, fvars, ovars>>

\* One iteration of `while True` in test.py and test2.py: the chunk is read
\* and processed.
ReadChunk ==
  /\ step = "chunks"
  /\ reader \in {"test", "test2"}
  /\ LET c == ReadChunkChecked(file, f_pos)
         headerRaises == c.type = T_IHDR /\ Len(c.data) # 13
         paletteRaises == /\ reader = "test" /\ c.type = T_PLTE
                          /\ Len(c.data) % 3 # 0
     IN /\ f_pos' = c.pos
        /\ IF c.status # "chunk" THEN Fail(c.status)
           ELSE IF headerRaises \/ paletteRaises THEN Fail("Unexpected")
           ELSE IF c.type = T_IEND THEN step' = "decompress" /\ UNCHANGED outcome
           ELSE UNCHANGED <<step, outcome>>
        /\ IF c.status = "chunk" /\ c.type = T_IHDR /\ ~headerRaises
           THEN /\ width' = unpack_I(Slice(c.data, 0, 4))
                /\ height' = unpack_I(Slice(c.data, 4, 8))
                /\ bit_depth' = At(c.data, 8)
                /\ color_type' = At(c.data, 9)
           ELSE UNCHANGED <<width, height, bit_depth, color_type>>
        /\ IF c.status = "chunk" /\ IsDataChunk(c.type)
           THEN pixel_data' = Aggregate(pixel_data, c.data)
           ELSE UNCHANGED pixel_data
        /\ IF c.status = "chunk" /\ reader = "test" /\ c.type = T_PLTE
              /\ ~paletteRaises
           THEN palette' = palette \o PaletteTriples(c.data, 0)
           ELSE UNCHANGED palette
  /\ UNCHANGED <<reader, file, signature, chunks, chunk_i, decompressed_data,
                 returned_data, fvars, ovars>>

\* One iteration of `while True` in main.py: the chunk is read and appended
\* to chunks, or the loop breaks at the end of the file.
ReadChunkToList ==
  /\ step = "chunks"
  /\ reader = "main"
  /\ LET c == ReadChunkUnchecked(file, f_pos)
     IN /\ f_pos' = c.pos
        /\ IF c.status = "eof" THEN step' = "process" /\ UNCHANGED outcome
           ELSE IF c.status # "chunk" THEN Fail(c.status)
           ELSE UNCHANGED <<step, outcome>>
        /\ IF c.status = "chunk"
           THEN chunks' = Append(chunks, [type |-> c.type, data |-> c.data])
           ELSE UNCHANGED chunks
  /\ UNCHANGED <<reader, file, signature, width, height, bit_depth,
                 color_type, pixel_data, palette, chunk_i, decompressed_data,
                 returned_data, fvars, ovars>>

\* One iteration of `for chunk_type, chunk_data, crc in chunks` in main.py.
ProcessChunk ==
  /\ step = "process"
  /\ chunk_i < Len(chunks)
  /\ LET c == At(chunks, chunk_i)
         headerRaises == c.type = T_IHDR /\ Len(c.data) < 10
     IN /\ IF headerRaises THEN Fail("Unexpected")
           ELSE UNCHANGED <<step, outcome>>
        /\ IF c.type = T_IHDR /\ ~headerRaises
           THEN /\ width' = unpack_I(Slice(c.data, 0, 4))
                /\ height' = unpack_I(Slice(c.data, 4, 8))
                /\ bit_depth' = At(c.data, 8)
                /\ color_type' = At(c.data, 9)
           ELSE UNCHANGED <<width, height, bit_depth, color_type>>
        /\ IF IsDataChunk(c.type)
           THEN pixel_data' = Aggregate(pixel_data, c.data)
           ELSE UNCHANGED pixel_data
  /\ chunk_i' = chunk_i + 1
  /\ UNCHANGED <<reader, file, f_pos, signature, palette, chunks,
                 decompressed_data, returned_data, fvars, ovars>>

\* zlib.decompress(pixel_data) and, in main.py and test.py, the return.
Decompress ==
  /\ \/ step = "decompress"
     \/ step = "process" /\ chunk_i >= Len(chunks)
  /\ \E z \in ZlibOutcomes(pixel_data) :
       IF ~z.ok
       THEN Fail("DecompressionError")
            /\ UNCHANGED <<decompressed_data, returned_data>>
       ELSE /\ decompressed_data' = z.data
            /\ IF reader = "test2"
               THEN step' = "defilter" /\ UNCHANGED <<outcome, returned_data>>
               ELSE /\ step' = "done"
                    /\ outcome' = "ok"
                    /\ returned_data' = z.data
  /\ UNCHANGED <<reader, file, f_pos, signature, width, height, bit_depth,
                 color_type, pixel_data, palette, chunks, chunk_i, fvars, ovars>>

\* test2.py: scanline_length = width * 3 + 1, the call of
\* apply_filters_to_data and the return.  width * 3 raises TypeError when
\* no IHDR chunk was read.
ApplyFilters ==
  /\ step = "defilter"
  /\ IF width = NoneInt
     THEN Fail("Unexpected") /\ UNCHANGED returned_data
     ELSE LET r == apply_filters_to_data(width, height, decompressed_data)
          IN IF r.status = "IndexError"
             THEN Fail("Unexpected") /\ UNCHANGED returned_data
             ELSE /\ step' = "done"
                  /\ outcome' = "ok"
                  /\ returned_data' = r.unfiltered_data
  /\ UNCHANGED <<reader, file, f_pos, signature, width, height, bit_depth,
                 color_type, pixel_data, palette, chunks, chunk_i,
                 decompressed_data, fvars, ovars>>

Next ==
  \/ CheckSignature
  \/ ReadChunk
  \/ ReadChunkToList
  \/ ProcessChunk
  \/ Decompress
  \/ ApplyFilters

Spec == Init /\ [][Next]_vars

\* ------------------------------------------- claims about the defilter

\* The stream handed to the defilter is whole and every row's type is 0..4.
WellFormedStream ==
  /\ Len(f_pixel_data) = f_height * (f_width * 3 + 1)
  /\ \A r \in 1..f_height : t_filters[r] \in 0..4

\* C1: filtering an unfiltered image with the standard PNG filter, any of
\* the types 0..4 per row, and then defiltering it returns the original
\* bytes.
C1_RoundTrip ==
  (fst.status = "returned" /\ WellFormedStream)
    => fst.unfiltered_data = t_image

\* C2: whenever apply_filters_to_data returns, the returned stream has
\* exactly height * width * 3 bytes, whatever the filter-type bytes are.
C2_OutputLength ==
  (fst.status = "returned"
   /\ Len(f_pixel_data) = f_height * (f_width * 3 + 1))
    => Len(fst.unfiltered_data) = f_height * f_width * 3

\* C10: a stream shorter than height * (1 + width * 3) bytes is never
\* answered with a byte stream, whether it ends at a row boundary or in the
\* middle of a row.
C10_TruncatedScanlines ==
  Len(f_pixel_data) < f_height * (1 + f_width * 3)
    => fst.status # "returned"

\* --------------------------------------------- claims about read_png

\* The whole chunks of file f that lie between offsets p and end, in order.
RECURSIVE WholeChunks(_, _, _)
WholeChunks(f, p, end) ==
  IF p + 8 > end THEN <<>>
  ELSE LET len == unpack_I(SubSeq(f, p + 1, p + 4))
           q == p + 8 + len + 4
       IN IF q > end THEN <<>>
          ELSE <<[type |-> SubSeq(f, p + 5, p + 8),
                  data |-> SubSeq(f, p + 9, p + 8 + len)]>>
               \o WholeChunks(f, q, end)

\* The payloads of the IDAT chunks of a chunk sequence, one after the other.
RECURSIVE IdatPayloads(_)
IdatPayloads(cs) ==
  IF cs = <<>> THEN <<>>
  ELSE (IF Head(cs).type = T_IDAT THEN Head(cs).data ELSE <<>>)
       \o IdatPayloads(Tail(cs))

\* The chunks the reader has processed so far: those it has read (test.py,
\* test2.py), the first chunk_i of the file (main.py).
ChunksProcessed ==
  IF reader = "main"
  THEN SubSeq(WholeChunks(file, 8, Len(file)), 1, chunk_i)
  ELSE WholeChunks(file, 8, f_pos)

\* The offset behind the first whole IEND chunk at or after p, or the end of
\* the file when there is none.
RECURSIVE EndOfImage(_, _)
EndOfImage(f, p) ==
  IF p + 8 > Len(f) THEN Len(f)
  ELSE LET len == unpack_I(SubSeq(f, p + 1, p + 4))
           q == p + 8 + len + 4
       IN IF q > Len(f) THEN Len(f)
          ELSE IF SubSeq(f, p + 5, p + 8) = T_IEND THEN q
          ELSE EndOfImage(f, q)

\* Walking the chunks from p, a chunk before any IEND has a whole length and
\* (ASCII) type field and declares more payload bytes than the file has left.
RECURSIVE DeclaresTooMuch(_, _)
DeclaresTooMuch(f, p) ==
  IF p + 8 > Len(f) THEN FALSE
  ELSE LET len == unpack_I(SubSeq(f, p + 1, p + 4))
           type == SubSeq(f, p + 5, p + 8)
       IN IF ~IsAscii(type) THEN FALSE
          ELSE IF p + 8 + len > Len(f) THEN TRUE
          ELSE IF p + 8 + len + 4 > Len(f) \/ type = T_IEND THEN FALSE
          ELSE DeclaresTooMuch(f, p + 8 + len + 4)

\* A row of the decompressed stream starts with a byte outside 0..4.
HasUnknownFilterType(w, h, data) ==
  \E r \in 0..(h - 1) :
    /\ r * (w * 3 + 1) < Len(data)
    /\ At(data, r * (w * 3 + 1)) \notin 0..4

\* C3: if a row's filter-type byte is outside 0..4 the decode ends in an
\* error and returns no pixel data.
C3_UnknownFilterType ==
  (/\ reader = "test2" /\ step = "done"
   /\ width # NoneInt /\ decompressed_data # NoneBytes
   /\ HasUnknownFilterType(width, height, decompressed_data))
    => (outcome # "ok" /\ returned_data = NoneBytes)

\* C4: a file with a valid signature in which a chunk declares more payload
\* than the file has left ends read_png with the truncated-stream error, in
\* every reader.
C4_TruncatedStream ==
  (step = "done" /\ signature = PNG_SIGNATURE /\ DeclaresTooMuch(file, 8))
    => outcome = "TruncatedStream"

\* The chunks the chunk loop has read so far.
ChunksRead == IF reader = "main" THEN chunks ELSE WholeChunks(file, 8, f_pos)

\* C5: the chunk loop stops at the first IEND chunk or at the end of the
\* file at a chunk boundary: nothing behind the first IEND is read, and a
\* file of one or more whole chunks without IEND does not end as a truncated
\* stream.
C5_LoopEnds ==
  signature = PNG_SIGNATURE =>
    /\ Len(ChunksRead) <= Len(WholeChunks(file, 8, EndOfImage(file, 8)))
    /\ (/\ step = "done"
        /\ EndOfImage(file, 8) = Len(file)
        /\ Len(WholeChunks(file, 8, Len(file))) >= 1
        /\ EncodeChunks(WholeChunks(file, 8, Len(file))) = Slice(file, 8, Len(file))
        /\ \A i \in 1..Len(WholeChunks(file, 8, Len(file))) :
             WholeChunks(file, 8, Len(file))[i].type # T_IEND)
       => outcome # "TruncatedStream"

\* C6: the aggregated buffer is the concatenation, in stream order, of the
\* payloads of exactly the IDAT chunks processed so far; an IDAT chunk of
\* length 0 adds nothing.
C6_Aggregation == pixel_data = IdatPayloads(ChunksProcessed)

\* Three IDAT chunks were aggregated, the middle one of length 0.
C6_Witness ==
  /\ Len(ChunksProcessed) = 3
  /\ \A i \in 1..3 : ChunksProcessed[i].type = T_IDAT
  /\ ChunksProcessed[1].data = <<8, 9>>
  /\ ChunksProcessed[2].data = <<>>
  /\ ChunksProcessed[3].data = <<7>>
  /\ pixel_data = <<8, 9, 7>>

\* The number of IHDR chunks in a chunk sequence.
RECURSIVE HeaderCount(_)
HeaderCount(cs) ==
  IF cs = <<>> THEN 0
  ELSE (IF Head(cs).type = T_IHDR THEN 1 ELSE 0) + HeaderCount(Tail(cs))

\* A step of main.py or test2.py keeps a header that is set and does not
\* end the decode successfully after more than one IHDR chunk.
HeaderOnceStep ==
  reader \in {"main", "test2"} =>
    /\ width # NoneInt =>
         /\ width' = width /\ height' = height
         /\ bit_depth' = bit_depth /\ color_type' = color_type
    /\ outcome' = "ok" => HeaderCount(ChunksProcessed') <= 1

\* C7: once a header has been processed no later chunk changes width,
\* height, bit depth or colour type, and a file with more than one IHDR
\* chunk is not decoded.
C7_HeaderOnce == [][HeaderOnceStep]_vars

\* The bit depth and colour type combinations of the supported set.
SupportedFormat(bd, ct) == bd = 8 /\ ct \in {0, 2, 3, 6}

\* C8: with a header outside the supported set (any 16-bit header) the
\* decode fails and the defilter stage is never run.
C8_UnsupportedFormat ==
  (/\ reader = "test2"
   /\ bit_depth # NoneInt /\ ~SupportedFormat(bit_depth, color_type))
    => (step # "defilter" /\ outcome # "ok")

\* C9: read_png first consumes the first eight bytes of the file and, if
\* they are not the PNG signature, ends with the invalid-signature error
\* having read no chunk and produced no header, payload or pixel data.
C9_InvalidSignature ==
  step # "signature" =>
    /\ signature = Slice(file, 0, 8)
    /\ signature # PNG_SIGNATURE =>
         /\ step = "done" /\ outcome = "InvalidSignature"
         /\ f_pos = Len(signature)
         /\ width = NoneInt /\ height = NoneInt
         /\ bit_depth = NoneInt /\ color_type = NoneInt
         /\ pixel_data = <<>> /\ palette = <<>> /\ chunks = <<>>
         /\ decompressed_data = NoneBytes /\ returned_data = NoneBytes

\* A file with eight wrong bytes and a chunk behind them was refused.
C9_Witness ==
  /\ step = "done" /\ outcome = "InvalidSignature"
  /\ Len(signature) = 8 /\ Len(file) > 8

\* ------------------------------------------- paeth_predictor on its own

\* Largest of the small bytes paeth_predictor is called with.
MaxPaethByte == 12

\* The bytes paeth_predictor is called with: the small ones and two large.
PaethBytes == (0..MaxPaethByte) \cup {128, 255}

InitPaeth ==
  /\ ReaderIdle
  /\ FilterIdle
  /\ Mp4Idle
  /\ \E a \in PaethBytes, b \in PaethBytes, c \in PaethBytes :
       call = [fn |-> "paeth_predictor", a |-> a, b |-> b, c |-> c]
  /\ ret = [status |-> "none"]

\* The call and its return value.
CallPaeth ==
  /\ call.fn = "paeth_predictor"
  /\ ret.status = "none"
  /\ ret' = [status |-> "returned",
             value |-> paeth_predictor(call.a, call.b, call.c)]
  /\ UNCHANGED <<rvars, fvars, mvars, call>>

NextPaeth == CallPaeth

SpecPaeth == InitPaeth /\ [][NextPaeth]_vars

\* The first of a, b, c, in that order, that is as close to a + b - c as any
\* of the three.
ClosestInOrder(a, b, c) ==
  LET p == a + b - c
      least == CHOOSE d \in {Abs(p - a), Abs(p - b), Abs(p - c)} :
                 \A e \in {Abs(p - a), Abs(p - b), Abs(p - c)} : d <= e
  IN IF Abs(p - a) = least THEN a
     ELSE IF Abs(p - b) = least THEN b
     ELSE c

\* C15: paeth_predictor(a, b, c) is whichever of a, b, c is closest to
\* a + b - c, a tie going to a before b before c; paeth_predictor(10, 10, 10)
\* is 10.
C15_PaethTieBreak ==
  ret.status = "returned" =>
    /\ ret.value = ClosestInOrder(call.a, call.b, call.c)
    /\ (call.a = 10 /\ call.b = 10 /\ call.c = 10) => ret.value = 10

\* A call in which b and c are equally close, closer than a, and differ: the
\* tie went to b.
C15_Witness ==
  /\ ret.status = "returned"
  /\ call.b # call.c
  /\ Abs(call.a + call.b - call.c - call.b) = Abs(call.a + call.b - call.c - call.c)
  /\ Abs(call.a + call.b - call.c - call.b) < Abs(call.a + call.b - call.c - call.a)
  /\ ret.value = call.b

\* ----------------------------------------- interpret_rgb_8bit on its own

\* How many bytes more than the largest image the pixel data may have.
MaxExtraBytes == 3

\* The versions of interpret_rgb_8bit: that of test.py and that of test2.py.
Versions == {"test", "test2"}

\* Pixel data of n bytes, counting up from first.
PixelBytes(n, first) == [i \in 1..n |-> (first + 7 * (i - 1)) % 256]

\* The for loop of interpret_rgb_8bit from index i on: a read past the end
\* of pixel_data raises IndexError.
RECURSIVE InterpretLoop(_, _, _)
InterpretLoop(data, i, pixels) ==
  IF i >= Len(data) THEN [status |-> "returned", value |-> pixels]
  ELSE IF i + 2 >= Len(data) THEN [status |-> "IndexError"]
  ELSE InterpretLoop(data, i + 3,
                     Append(pixels, <<At(data, i), At(data, i + 1), At(data, i + 2)>>))

\* interpret_rgb_8bit: test2.py checks the length of pixel_data, test.py has
\* the check commented out.
interpret_rgb_8bit(version, w, h, data) ==
  IF version = "test2" /\ Len(data) # w * h * 3
  THEN [status |-> "None"]
  ELSE InterpretLoop(data, 0, <<>>)

InitPixels ==
  /\ ReaderIdle
  /\ FilterIdle
  /\ Mp4Idle
  /\ \E v \in Versions, w \in 1..MaxWidth, h \in 1..MaxHeight,
        n \in 0..(MaxWidth * MaxHeight * 3 + MaxExtraBytes), first \in {0, 250} :
       call = [fn |-> "interpret_rgb_8bit", version |-> v, width |-> w,
               height |-> h, pixel_data |-> PixelBytes(n, first)]
  /\ ret = [status |-> "none"]

\* The call and what it answered.
CallInterpret ==
  /\ call.fn = "interpret_rgb_8bit"
  /\ ret.status = "none"
  /\ ret' = interpret_rgb_8bit(call.version, call.width, call.height,
                               call.pixel_data)
  /\ UNCHANGED <<rvars, fvars, mvars, call>>

NextPixels == CallInterpret

SpecPixels == InitPixels /\ [][NextPixels]_vars

\* C11: in both versions, interpret_rgb_8bit given width * height * 3 bytes
\* returns width * height tuples, tuple k being bytes 3k, 3k+1, 3k+2; given
\* any other number of bytes it ends in an error and returns no pixel list.
C11_PixelList ==
  (call.fn = "interpret_rgb_8bit" /\ ret.status # "none") =>
    IF Len(call.pixel_data) = call.width * call.height * 3
    THEN /\ ret.status = "returned"
         /\ Len(ret.value) = call.width * call.height
         /\ \A k \in 0..(call.width * call.height - 1) :
              ret.value[k + 1] = <<At(call.pixel_data, 3 * k),
                                   At(call.pixel_data, 3 * k + 1),
                                   At(call.pixel_data, 3 * k + 2)>>
    ELSE ret.status \in {"None", "IndexError"}

\* ------------------------------------------------ chunks of other types

\* The chunk types test.py and test2.py name between them.
NamedTypes == {T_IHDR, T_IDAT, T_PLTE, T_IEND}

\* The file has, at the read position, a chunk with whole length, type,
\* payload and checksum fields.
WholeChunkNext == WholeChunks(file, f_pos, Len(file)) # <<>>

\* The chunk at the read position.
NextChunk == Head(WholeChunks(file, f_pos, Len(file)))

\* An iteration of the chunk loop of test.py or test2.py is about to read a
\* whole chunk of a type the readers do not name.
ReadsOtherChunk ==
  /\ step = "chunks"
  /\ reader \in {"test", "test2"}
  /\ WholeChunkNext
  /\ NextChunk.type \notin NamedTypes

\* The step reads past the chunk, changes nothing else and ends in no error.
SkipsChunk ==
  /\ f_pos' = f_pos + 12 + Len(NextChunk.data)
  /\ step' = "chunks"
  /\ outcome' = "running"
  /\ UNCHANGED <<width, height, bit_depth, color_type, pixel_data, palette,
                 decompressed_data, returned_data>>

SkipsOtherAscii == (ReadsOtherChunk /\ IsAscii(NextChunk.type)) => SkipsChunk

SkipsOther == ReadsOtherChunk => SkipsChunk

\* C12 (amended): a whole chunk whose type is four ASCII bytes and none of
\* IHDR, IDAT, PLTE, IEND is skipped without effect: the header values, the
\* aggregated IDAT buffer and the palette stay as they are and no error
\* comes of it.
C12_OtherAsciiSkipped == [][SkipsOtherAscii]_vars

\* C12 (as claimed): a whole chunk of any type that is none of IHDR, IDAT,
\* PLTE, IEND is skipped without effect and without error.
C12_OtherSkipped == [][SkipsOther]_vars

\* test2.py has read IHDR, a tEXt chunk and an IDAT chunk: header and buffer
\* are those of IHDR and IDAT alone.
C12_Witness ==
  /\ reader = "test2"
  /\ step = "chunks"
  /\ outcome = "running"
  /\ Len(ChunksProcessed) = 3
  /\ ChunksProcessed[1] = [type |-> T_IHDR, data |-> IhdrData(1, 1, 8, 2)]
  /\ ChunksProcessed[2] = [type |-> T_tEXt, data |-> <<5>>]
  /\ ChunksProcessed[3] = [type |-> T_IDAT, data |-> <<7>>]
  /\ width = 1 /\ height = 1 /\ bit_depth = 8 /\ color_type = 2
  /\ pixel_data = <<7>>

\* ------------------------------------------------- the row kept as above

\* The row the loop wrote to unfiltered_data last.
LastRowWritten ==
  Slice(fst.unfiltered_data, Len(fst.unfiltered_data) - f_width * 3,
        Len(fst.unfiltered_data))

\* C13: after row r has been processed and before row r + 1 is, the previous
\* row kept for filters 2, 3 and 4 is the reconstructed row r, whatever the
\* filter type of row r.
C13_PreviousRowReconstructed ==
  (fst.status = "loop" /\ fst.row >= 1 /\ fst.row < f_height
   /\ WellFormedStream)
    => fst.previous_scanline = LastRowWritten

\* ----------------------------------------------------- boundary policy

\* The predictor of filter type ft from left a, above b and upper left c.
Predictor(ft, a, b, c) ==
  CASE ft = 1 -> a
    [] ft = 2 -> b
    [] ft = 3 -> (a + b) \div 2
    [] ft = 4 -> PaethStd(a, b, c)

\* The filter-type byte and the filtered bytes of the row the loop is at.
RowFilterType == At(f_pixel_data, fst.row * (f_width * 3 + 1))
RowFiltered ==
  Slice(f_pixel_data, fst.row * (f_width * 3 + 1) + 1,
        (fst.row + 1) * (f_width * 3 + 1))

\* The row a step of the loop has written.
RowWritten ==
  Slice(fst'.unfiltered_data, Len(fst.unfiltered_data),
        Len(fst'.unfiltered_data))

\* A step of the loop over a row of filter type 1..4: left of the row a and
\* c are 0, in the first row b and c are 0, and a first row of type 2 is
\* written as it is.
BoundaryStep ==
  (fst.status = "loop" /\ fst.row < f_height /\ WellFormedStream
   /\ RowFilterType \in 1..4)
  => /\ fst'.status = "loop"
     /\ Len(RowWritten) = f_width * 3
     /\ \A i \in 0..(f_width * 3 - 1) :
          LET x == At(RowFiltered, i)
              a == IF i >= 3 THEN At(RowWritten, i - 3) ELSE 0
              b == IF fst.row = 0 THEN 0 ELSE At(fst.previous_scanline, i)
          IN /\ i < 3 =>
                  At(RowWritten, i) = (x + Predictor(RowFilterType, 0, b, 0)) % 256
             /\ fst.row = 0 =>
                  At(RowWritten, i) = (x + Predictor(RowFilterType, a, 0, 0)) % 256
     /\ (fst.row = 0 /\ RowFilterType = 2) => RowWritten = RowFiltered

\* C14: in every row the leftmost 3 byte positions are reconstructed with
\* a = 0 and c = 0, in the first row every position is reconstructed with
\* b = 0 and c = 0, for each of the filters 1..4; a first row of filter
\* type 2 is output unchanged.
C14_BoundaryPolicy == [][BoundaryStep]_vars

\* Two rows of two pixels, none of them black, were reconstructed: the first
\* of type 2 came out as it went in, the second is of type 4.
C14_Witness ==
  /\ fst.status = "loop"
  /\ fst.row = 2
  /\ f_width = 2
  /\ WellFormedStream
  /\ t_filters = <<2, 4>>
  /\ \A i \in 1..Len(t_image) : t_image[i] # 0
  /\ Slice(fst.unfiltered_data, 0, 6) = Slice(f_pixel_data, 1, 7)
  /\ Len(fst.unfiltered_data) = 12

\* ----------------------------------------------------- parse_mp4, by step

T_moov == <<109, 111, 111, 118>>
T_trak == <<116, 114, 97, 107>>
T_mdia == <<109, 100, 105, 97>>
T_minf == <<109, 105, 110, 102>>
T_stbl == <<115, 116, 98, 108>>
T_stsd == <<115, 116, 115, 100>>
T_hdlr == <<104, 100, 108, 114>>
T_free == <<102, 114, 101, 101>>

IsCont(x) == x >= 128 /\ x <= 191

\* bytes.decode('utf-8') of at most four bytes does not raise.
RECURSIVE IsUtf8(_)
IsUtf8(b) ==
  IF b = <<>> THEN TRUE
  ELSE LET x == b[1]
           n == Len(b)
       IN IF x < 128 THEN IsUtf8(Tail(b))
          ELSE IF x >= 194 /\ x <= 223
          THEN n >= 2 /\ IsCont(b[2]) /\ IsUtf8(SubSeq(b, 3, n))
          ELSE IF x >= 224 /\ x <= 239
          THEN /\ n >= 3 /\ IsCont(b[2]) /\ IsCont(b[3])
               /\ (x = 224 => b[2] >= 160)
               /\ (x = 237 => b[2] <= 159)
               /\ IsUtf8(SubSeq(b, 4, n))
          ELSE IF x >= 240 /\ x <= 244
          THEN /\ n >= 4 /\ IsCont(b[2]) /\ IsCont(b[3]) /\ IsCont(b[4])
               /\ (x = 240 => b[2] >= 144)
               /\ (x = 244 => b[2] <= 143)
               /\ IsUtf8(SubSeq(b, 5, n))
          ELSE FALSE

\* read_box_header at position pos: status "struct.error" when fewer than
\* four bytes are left for the size, "UnicodeDecodeError" when the type
\* bytes are not UTF-8; the type may be shorter than four bytes at the end
\* of the file.  pos is the position after the reads.
read_box_header(f, pos) ==
  LET size_bytes == Slice(f, pos, pos + 4)
      p1 == pos + Len(size_bytes)
  IN IF Len(size_bytes) # 4
     THEN [status |-> "struct.error", pos |-> p1, size |-> 0, type_ |-> <<>>]
     ELSE LET type_bytes == Slice(f, p1, p1 + 4)
              p2 == p1 + Len(type_bytes)
          IN IF ~IsUtf8(type_bytes)
             THEN [status |-> "UnicodeDecodeError", pos |-> p2, size |-> 0,
                   type_ |-> <<>>]
             ELSE [status |-> "ok", pos |-> p2, size |-> unpack_I(size_bytes),
                   type_ |-> type_bytes]

\* The function that parses the boxes inside a box of the given type, when
\* the function fn calls one for it; "none" when fn seeks over the box.
Callee(fn, type_) ==
  CASE fn = "parse_mp4" /\ type_ = T_moov -> "parse_moov"
    [] fn = "parse_moov" /\ type_ = T_trak -> "parse_trak"
    [] fn = "parse_trak" /\ type_ = T_mdia -> "parse_mdia"
    [] fn = "parse_mdia" /\ type_ = T_minf -> "parse_minf"
    [] fn = "parse_minf" /\ type_ = T_stbl -> "parse_stbl"
    [] fn = "parse_stbl" /\ type_ = T_stsd -> "parse_stsd"
    [] OTHER -> "none"

\* The locals of a call: end_position of the while loops, the iterations
\* left of the for loop of parse_stsd, size and type_ of the box at hand.
Frame(fn, end_position, left) ==
  [fn |-> fn, end_position |-> end_position, left |-> left, size |-> 0,
   type_ |-> <<>>]

\* The condition of the loop of the innermost call.
LoopGoesOn(fr) ==
  CASE fr.fn = "parse_mp4" -> TRUE
    [] fr.fn = "parse_stsd" -> fr.left > 0
    [] OTHER -> m_pos < fr.end_position

\* An exception reaches the except clauses of parse_mp4 at position pos:
\* the loop breaks and parse_mp4 returns.
Raise(pos) ==
  /\ m_pos' = pos
  /\ m_stack' = <<>>
  /\ m_status' = "done"

\* file_handle.seek(offset, 1) at position pos: a negative target raises
\* OSError, a target behind the end of the file is taken.
SeekOn(pos, offset) ==
  IF pos + offset < 0 THEN Raise(pos)
  ELSE /\ m_pos' = pos + offset
       /\ m_status' = "loop"
       /\ UNCHANGED m_stack

\* size, type_ = read_box_header(f) at the top of the innermost loop.
ReadHeader ==
  /\ m_status = "loop"
  /\ LoopGoesOn(Head(m_stack))
  /\ LET h == read_box_header(m_file, m_pos)
         fr == Head(m_stack)
     IN IF h.status # "ok" THEN Raise(h.pos)
        ELSE /\ m_pos' = h.pos
             /\ m_status' = "box"
             /\ m_stack' = <<[fr EXCEPT !.size = h.size, !.type_ = h.type_,
                                        !.left = IF fr.fn = "parse_stsd"
                                                 THEN @ - 1 ELSE @]>>
                           \o Tail(m_stack)
  /\ UNCHANGED <<rvars, fvars, cvars, m_file>>

\* The loop of a function below parse_mp4 ends and the function returns
\* into the loop of its caller.
Return ==
  /\ m_status = "loop"
  /\ ~LoopGoesOn(Head(m_stack))
  /\ m_stack' = Tail(m_stack)
  /\ UNCHANGED <<rvars, fvars, cvars, m_file, m_pos, m_status>>

\* file_handle.seek(size - 8, 1): the branches that skip the box.
SkipBox ==
  /\ m_status = "box"
  /\ LET fr == Head(m_stack)
     IN /\ Callee(fr.fn, fr.type_) = "none"
        /\ ~(fr.fn = "parse_mdia" /\ fr.type_ = T_hdlr)
        /\ SeekOn(m_pos, fr.size - 8)
  /\ UNCHANGED <<rvars, fvars, cvars, m_file>>

\* The hdlr branch of parse_mdia: the handler type is read and decoded, then
\* file_handle.seek(size - 12, 1).
HandlerBox ==
  /\ m_status = "box"
  /\ LET fr == Head(m_stack)
         handler_type == Slice(m_file, m_pos, m_pos + 4)
         p1 == m_pos + Len(handler_type)
     IN /\ fr.fn = "parse_mdia" /\ fr.type_ = T_hdlr
        /\ IF ~IsUtf8(handler_type) THEN Raise(p1)
           ELSE SeekOn(p1, fr.size - 12)
  /\ UNCHANGED <<rvars, fvars, cvars, m_file>>

\* The branches that call the function for the boxes inside:
\* parse_moov(f, size - 8) and the like, up to their loop.
EnterBox ==
  /\ m_status = "box"
  /\ LET fr == Head(m_stack)
         fn == Callee(fr.fn, fr.type_)
     IN /\ fn \notin {"none", "parse_stsd"}
        /\ m_stack' = <<Frame(fn, m_pos + fr.size - 8, 0)>> \o m_stack
        /\ m_status' = "loop"
        /\ UNCHANGED m_pos
  /\ UNCHANGED <<rvars, fvars, cvars, m_file>>

\* parse_stsd(file_handle, size - 8) up to its for loop: four bytes are
\* skipped and entry_count is read.
EnterStsd ==
  /\ m_status = "box"
  /\ LET fr == Head(m_stack)
         count_bytes == Slice(m_file, m_pos + 4, m_pos + 8)
         p1 == m_pos + 4 + Len(count_bytes)
     IN /\ Callee(fr.fn, fr.type_) = "parse_stsd"
        /\ IF Len(count_bytes) # 4 THEN Raise(p1)
           ELSE /\ m_pos' = p1
                /\ m_stack' = <<Frame("parse_stsd", m_pos + fr.size - 8,
                                      unpack_I(count_bytes))>> \o m_stack
                /\ m_status' = "loop"
  /\ UNCHANGED <<rvars, fvars, cvars, m_file>>

NextMp4 ==
  \/ ReadHeader
  \/ Return
  \/ SkipBox
  \/ HandlerBox
  \/ EnterBox
  \/ EnterStsd

\* The most boxes side by side in a test file, and the most entries a stsd
\* box of a test file declares.
MaxBoxes == 2
MaxEntries == 2

\* A box as its bytes: the declared size, the type and the payload.
Box(size, type_, payload) == pack_I(size) \o type_ \o payload

\* A box that declares the size it has.
WholeBox(type_, payload) == Box(8 + Len(payload), type_, payload)

\* A type that is not UTF-8, and "éee", three characters in four bytes.
T_NotUtf8 == <<255, 114, 101, 101>>
T_TwoByteChar == <<195, 169, 101, 101>>

\* The boxes without boxes inside: whole ones, ones that declare size 0 or
\* 4, less than their header has, and ones whose type does not decode.
LeafBoxes ==
  { WholeBox(T_free, <<>>),
    WholeBox(T_TwoByteChar, <<>>),
    WholeBox(T_hdlr, <<118, 105, 100, 101>>),
    WholeBox(T_NotUtf8, <<>>),
    Box(0, T_free, <<>>),
    Box(4, T_free, <<>>),
    Box(0, T_moov, <<>>) }

\* Half a size field, as the end of a file.
HalfSize == <<0, 0>>

RECURSIVE Concat(_)
Concat(bs) == IF bs = <<>> THEN <<>> ELSE Head(bs) \o Concat(Tail(bs))

\* The types of the boxes parse_mp4 and the functions below it go into,
\* outermost first.
Containers == <<T_moov, T_trak, T_mdia, T_minf, T_stbl>>

\* content inside the first d containers, innermost container first put
\* around it.
RECURSIVE Wrap(_, _)
Wrap(d, content) ==
  IF d = 0 THEN content ELSE Wrap(d - 1, WholeBox(Containers[d], content))

\* The test files: boxes side by side at the top, with or without half a
\* size field behind them, inside one to five containers, or as the entries
\* of a stsd box that declares n of them.
Mp4Files ==
  LET contents == {Concat(bs) :
                     bs \in UNION {[1..k -> LeafBoxes] : k \in 0..MaxBoxes}}
  IN {Wrap(d, c) : d \in 0..Len(Containers), c \in contents}
     \cup {c \o HalfSize : c \in contents}
     \cup {Wrap(Len(Containers),
                WholeBox(T_stsd, <<0, 0, 0, 0>> \o pack_I(n) \o c)) :
             n \in 0..MaxEntries, c \in contents}

\* with open(file_path, "rb") as f, before the first iteration of the loop.
InitMp4 ==
  /\ ReaderIdle
  /\ FilterIdle
  /\ CallIdle
  /\ m_file \in Mp4Files
  /\ m_pos = 0
  /\ m_stack = <<Frame("parse_mp4", 0, 0)>>
  /\ m_status = "loop"

\* The interpreter goes on executing parse_mp4 while a statement is left.
SpecMp4 == InitMp4 /\ [][NextMp4]_vars /\ WF_vars(NextMp4)

\* C16: parse_mp4 terminates on every finite file, whatever sizes its boxes
\* declare, sizes less than the 8 bytes of a box header included.
C16_Terminates == <>(m_status = "done")

====
